---- MODULE Spec2Model ----
(***************************************************************************)
(* Model of packages/coin-ethereum/src/EthWallet.ts: the EthWallet and     *)
(* SuiWallet classes.  A text is a sequence of one-character strings, a    *)
(* byte string a sequence of 0..255.  Every JavaScript value is a record   *)
(* tagged by its field t.                                                  *)
(***************************************************************************)
EXTENDS Integers, Sequences, FiniteSets, TLC

\* ------------------------------------------------------------------ bounds
\* Number of call slots (calls that may be in flight at once).
NSlots == 2
\* Longest hex body of the enumerated hex texts handed to toRpcHex.
MaxBody == 3

\* --------------------------------------------------------------- constants
\* assertBufferLength(..., 32): the private key length in bytes.
KeyBytes == 32
\* new Uint8Array([5]): the domain tag of an authorization item.
AuthMagic == 5
\* signed.v - 27: the offset of the recovery id in v.
VOffset == 27
\* data.chainId || 1: the default chain id.
DefaultChainId == 1
\* array.length == 32: the length of a Sui address in bytes.
SuiAddressBytes == 32

\* calls[i]: the call in flight in slot i, with its position pc, its
\* arguments, the steps it took, what it built and its outcome. The wallets
\* keep no other state.
VARIABLES calls

\* ------------------------------------------------------------ JS values
Undef == [t |-> "undefined"]
Num(n) == [t |-> "number", n |-> n]
Txt(s) == [t |-> "string", s |-> s]
Bool(b) == [t |-> "boolean", b |-> b]
List(l) == [t |-> "array", l |-> l]

\* JavaScript truthiness (the operand of ||, ! and if).
Truthy(v) ==
    CASE v.t = "undefined" -> FALSE
      [] v.t = "number" -> v.n # 0
      [] v.t = "string" -> v.s # <<>>
      [] v.t = "boolean" -> v.b
      [] OTHER -> TRUE

\* a || b
OrElse(a, b) == IF Truthy(a) THEN a ELSE b

\* ------------------------------------------------------------ hex texts
HexChars == <<"0", "1", "2", "3", "4", "5", "6", "7", "8", "9", "a", "b", "c", "d", "e", "f">>

\* c.toLowerCase() for the letters of a hex text
ToLower(c) ==
    CASE c = "A" -> "a" [] c = "B" -> "b" [] c = "C" -> "c"
      [] c = "D" -> "d" [] c = "E" -> "e" [] c = "F" -> "f"
      [] OTHER -> c

LowerCase(s) == [k \in 1..Len(s) |-> ToLower(s[k])]

IsHexChar(c) == \E i \in 1..16 : HexChars[i] = ToLower(c)

DigitOf(c) == (CHOOSE i \in 1..16 : HexChars[i] = ToLower(c)) - 1

IsDecChar(c) == \E i \in 1..10 : HexChars[i] = c

\* n copies of the text s
RECURSIVE Rep(_, _)
Rep(s, n) == IF n = 0 THEN <<>> ELSE s \o Rep(s, n - 1)

Drop(s, n) == SubSeq(s, n + 1, Len(s))

HasPrefix0x(s) == Len(s) >= 2 /\ s[1] = "0" /\ s[2] = "x"

Hx(body) == <<"0", "x">> \o body

\* The integer a sequence of hex digits denotes (the empty sequence denotes 0).
RECURSIVE HexVal(_)
HexVal(s) == IF s = <<>> THEN 0 ELSE 16 * HexVal(SubSeq(s, 1, Len(s) - 1)) + DigitOf(s[Len(s)])

RECURSIVE DecVal(_)
DecVal(s) == IF s = <<>> THEN 0 ELSE 10 * DecVal(SubSeq(s, 1, Len(s) - 1)) + DigitOf(s[Len(s)])

\* n.toString(16): the minimal hex digits of n ("0" for 0).
RECURSIVE HexDigits(_)
HexDigits(n) == IF n < 16 THEN <<HexChars[n + 1]>> ELSE HexDigits(n \div 16) \o <<HexChars[(n % 16) + 1]>>

\* body.replace(/^0+/, '')
RECURSIVE StripZeroChars(_)
StripZeroChars(s) == IF s # <<>> /\ s[1] = "0" THEN StripZeroChars(Tail(s)) ELSE s

\* --------------------------------------------------------- byte strings
\* Leading pairs of hex digits of s decoded to bytes; decoding stops at the
\* first pair that is not two hex digits (Buffer.from(s, 'hex')).
RECURSIVE DecodePairs(_)
DecodePairs(s) ==
    IF Len(s) >= 2 /\ IsHexChar(s[1]) /\ IsHexChar(s[2])
    THEN <<16 * DigitOf(s[1]) + DigitOf(s[2])>> \o DecodePairs(Drop(s, 2))
    ELSE <<>>

RECURSIVE BytesToChars(_)
BytesToChars(b) ==
    IF b = <<>> THEN <<>>
    ELSE <<HexChars[(b[1] \div 16) + 1], HexChars[(b[1] % 16) + 1]>> \o BytesToChars(Tail(b))

\* Removes the leading zero bytes of a byte string.
RECURSIVE StripZeroBytes(_)
StripZeroBytes(b) == IF b # <<>> /\ b[1] = 0 THEN StripZeroBytes(Tail(b)) ELSE b

\* The value of a big-endian byte string.
RECURSIVE BytesVal(_)
BytesVal(b) == IF b = <<>> THEN 0 ELSE 256 * BytesVal(SubSeq(b, 1, Len(b) - 1)) + b[Len(b)]

\* The minimal big-endian bytes of n (none for 0).
RECURSIVE MinBytes(_)
MinBytes(n) == IF n = 0 THEN <<>> ELSE MinBytes(n \div 256) \o <<n % 256>>

RECURSIVE SumBytes(_)
SumBytes(b) == IF b = <<>> THEN 0 ELSE b[1] + SumBytes(Tail(b))

\* b left-padded with zero bytes to n bytes.
PadLeft(b, n) == IF Len(b) >= n THEN b ELSE Rep(<<0>>, n - Len(b)) \o b


\* ------------------------------------------------ helpers outside this file
\* A thrown exception that is no typed error constant of coin-base.
Raw(msg) == [typed |-> FALSE, name |-> msg]
\* A typed error constant of coin-base (SignTxError, NewAddressError, ...).
Typed(name) == [typed |-> TRUE, name |-> name]

Ok(v) == [ok |-> TRUE, val |-> v]
Throw(e) == [ok |-> FALSE, err |-> e]

\* base.fromHex: an optional 0x prefix, then pairs of hex digits; a value that
\* is no string has no such method and throws.
fromHex(v) ==
    IF v.t # "string" THEN Throw(Raw("TypeError"))
    ELSE Ok(DecodePairs(IF HasPrefix0x(v.s) THEN Drop(v.s, 2) ELSE v.s))

\* assertBufferLength(buf, n): throws unless buf holds exactly n bytes.
assertBufferLength(buf, n) == IF Len(buf) = n THEN Ok(buf) ELSE Throw(Raw("buffer length is illegal"))

\* Whether a text is, after an optional 0x, made of hex digits only.
IsHexText(s) ==
    LET body == IF HasPrefix0x(s) THEN Drop(s, 2) ELSE s
    IN \A i \in 1..Len(body) : IsHexChar(body[i])

\* The scalar of a 32-byte key is usable when it is not zero.
ScalarInRange(bytes) == \E i \in 1..Len(bytes) : bytes[i] # 0

\* eth.validPrivateKey: hex text that decodes to exactly 32 bytes, with its
\* scalar in range.
eth_validPrivateKey(v) ==
    /\ v.t = "string"
    /\ IsHexText(v.s)
    /\ LET b == fromHex(v).val
           body == IF HasPrefix0x(v.s) THEN Drop(v.s, 2) ELSE v.s
       IN Len(body) = 2 * KeyBytes /\ Len(b) = KeyBytes /\ ScalarInRange(b)

\* keccak256, kept symbolic: equal digests come from equal preimages only.
keccak256(pre) == [t |-> "keccak", of |-> pre]

\* The public key of a private key, kept symbolic.
PubKeyOf(keyBytes) == [t |-> "pubkey", of |-> keyBytes]

\* eth.getNewAddress(privateKeyHex): the address record of the key.
eth_getNewAddress(v) == [t |-> "address", address |-> keccak256(PubKeyOf(fromHex(v).val)), publicKey |-> PubKeyOf(fromHex(v).val)]

\* ---------------------------------------------------------- BigNumber, hex
NaN == 0 - 1

\* new BigNumber(v): the integer v denotes, NaN when it denotes none.
BigNumber(v) ==
    CASE v.t = "number" -> v.n
      [] v.t = "string" ->
            IF HasPrefix0x(v.s)
            THEN IF Len(v.s) > 2 /\ IsHexText(v.s) THEN HexVal(Drop(v.s, 2)) ELSE NaN
            ELSE IF v.s # <<>> /\ (\A i \in 1..Len(v.s) : IsDecChar(v.s[i])) THEN DecVal(v.s) ELSE NaN
      [] OTHER -> NaN

\* base.toBigIntHex(n): 0x and the minimal hex digits of n.
toBigIntHex(n) == IF n = NaN THEN Txt(<<"0", "x", "N", "a", "N">>) ELSE Txt(Hx(HexDigits(n)))

\* EthWallet.convert2HexString
convert2HexString(v) == toBigIntHex(BigNumber(v))

\* Whether a JS value is a canonical hex quantity (0x and hex digits).
IsQuantity(v) == v.t = "string" /\ HasPrefix0x(v.s) /\ Len(v.s) > 2 /\ IsHexText(v.s)

\* ------------------------------------------ bytes and RLP outside this file
\* hexToBytes of ethereumjs-util: a 0x-prefixed hex text, padded to an even
\* number of digits; anything else throws.
hexToBytes(v) ==
    IF v.t # "string" \/ ~HasPrefix0x(v.s) \/ ~IsHexText(v.s) THEN Throw(Raw("hexToBytes"))
    ELSE LET body == Drop(v.s, 2)
         IN Ok(DecodePairs(IF Len(body) % 2 = 1 THEN <<"0">> \o body ELSE body))

\* unpadBytes / unpadBuffer: the bytes without their leading zero bytes.
unpadBytes(b) == StripZeroBytes(b)

\* bytesToHex / base.toHex(b, true): 0x and two hex digits per byte.
bytesToHex(b) == Txt(Hx(BytesToChars(b)))

\* The RLP header of a payload of len bytes: short form up to 55 bytes, long
\* form with the length of the length above.
RlpHeader(len, offset) ==
    IF len < 56 THEN <<offset + len>> ELSE <<offset + 55 + Len(MinBytes(len))>> \o MinBytes(len)

RlpString(b) == IF Len(b) = 1 /\ b[1] < 128 THEN b ELSE RlpHeader(Len(b), 128) \o b

RECURSIVE RlpConcat(_)
RlpConcat(items) == IF items = <<>> THEN <<>> ELSE RlpString(items[1]) \o RlpConcat(Tail(items))

\* RLP.encode of a list of byte strings.
RlpEncode(items) == RlpHeader(Len(RlpConcat(items)), 192) \o RlpConcat(items)

\* eth.ecdsaSign(msg, key): a deterministic signature, r and s of 32 bytes
\* (with or without leading zero bytes) and v = 27 + recovery id.
ecdsaSign(msg, key) ==
    IF ~ScalarInRange(key) THEN Throw(Raw("invalid private key"))
    ELSE LET m == SumBytes(msg.of) % 256
             k == key[Len(key)]
         IN Ok([r |-> IF m % 3 = 0 THEN Rep(<<k>>, 32) ELSE PadLeft(<<m>>, 32),
                s |-> PadLeft(<<k, m>>, 32),
                v |-> VOffset + ((m + k) % 2)])

\* ------------------------------------------------------ outcomes of a call
Resolve(v) == [kind |-> "resolve", val |-> v]
Reject(e) == [kind |-> "reject", err |-> e]
NoTx == [t |-> "none"]
\* A promise that has not settled yet.
Pending == [kind |-> "pending"]

SignTxError == Typed("SignTxError")
NewAddressError == Typed("NewAddressError")
GetMpcRawTransactionError == Typed("GetMpcRawTransactionError")
GetMpcTransactionError == Typed("GetMpcTransactionError")
GetHardwareRawTransactionError == Typed("GetHardwareRawTransactionError")
GetHardwareSignedTransactionError == Typed("GetHardwareSignedTransactionError")
CalcTxHashError == Typed("CalcTxHashError")
SignMsgError == Typed("SignMsgError")

\* ------------------------------------------- transactions outside this file
\* One field of a transaction as the serializer reads it: quantities by their
\* value, to and data by their bytes, an undefined data as no bytes.
CanonField(name, v) ==
    CASE name \in {"to", "data"} ->
            [t |-> "bytes", b |-> IF v.t = "string" THEN fromHex(v).val ELSE <<>>]
      [] name = "authorizationList" -> v
      [] OTHER -> Num(BigNumber(v))

CanonTx(txData) == [f \in DOMAIN txData |-> CanonField(f, txData[f])]

\* Whether the transaction factory accepts the fields of txData.
TxDataValid(txData) ==
    \A f \in DOMAIN txData :
        CASE f = "to" -> txData[f].t = "undefined" \/ (txData[f].t = "string" /\ IsHexText(txData[f].s))
          [] f = "data" -> txData[f].t = "undefined" \/ (txData[f].t = "string" /\ IsHexText(txData[f].s))
          [] f = "authorizationList" -> txData[f].t = "array"
          [] f = "type" -> txData[f].t = "number"
          [] OTHER -> IsQuantity(txData[f])

\* The hash a signer signs: the digest of the unsigned transaction.
TxHash(canon) == keccak256([t |-> "signingPayload", tx |-> canon])

NoSig == [t |-> "nosig"]
\* The recovery id of a signature by the key keyBytes.
RecIdOf(keyBytes) == keyBytes[Len(keyBytes)] % 2
\* The r and s of the signature of hash by the key keyBytes.
SignRS(hash, keyBytes) == [t |-> "rs", h |-> hash, by |-> PubKeyOf(keyBytes)]
\* The signature with its recovery id, as it is embedded in a transaction.
FullSig(rs, recid) == [t |-> "sig", rs |-> rs, recid |-> recid]
\* The serialized transaction, unsigned (NoSig) or signed.
Serialized(canon, sig) == [t |-> "serialized", tx |-> canon, sig |-> sig]

\* eth.signTransaction(privateKey, txData): with a key the signed transaction,
\* without one the unsigned transaction, its hash and its signing payload.
eth_signTransaction(privateKey, txData) ==
    IF ~TxDataValid(txData) THEN Throw(Raw("invalid transaction field"))
    ELSE LET canon == CanonTx(txData) IN
         IF Truthy(privateKey)
         THEN LET key == fromHex(privateKey).val IN
              IF ~ScalarInRange(key) THEN Throw(Raw("invalid private key"))
              ELSE Ok(Serialized(canon, FullSig(SignRS(TxHash(canon), key), RecIdOf(key))))
         ELSE Ok([t |-> "unsigned",
                  raw |-> Serialized(canon, NoSig),
                  hash |-> TxHash(canon),
                  serializeRaw |-> [t |-> "signingPayload", tx |-> canon]])

\* abi.RawEncode(['address', 'uint256'], [to, value]) as hex digits: both
\* arguments left-padded to 32 bytes.
abi_RawEncode(to, value) ==
    IF to.t # "string" \/ ~IsHexText(to.s) \/ ~IsQuantity(value) THEN Throw(Raw("abi"))
    ELSE Ok(BytesToChars(PadLeft(fromHex(to).val, 32))
            \o BytesToChars(PadLeft(fromHex(Txt(Hx(IF Len(value.s) % 2 = 1 THEN <<"0">> \o Drop(value.s, 2) ELSE Drop(value.s, 2)))).val, 32)))

\* ----------------------------------------------------------- EthWallet
TOKEN_TRANSFER_FUNCTION_SIGNATURE == <<"0", "x", "a", "9", "0", "5", "9", "c", "b", "b">>

\* convert2TxParam without the default of the type.
convert2TxParamTypeKept(data) ==
    [to |-> data.to,
     value |-> convert2HexString(OrElse(data.value, Num(0))),
     nonce |-> convert2HexString(data.nonce),
     contractAddress |-> data.contractAddress,
     gasPrice |-> convert2HexString(OrElse(data.gasPrice, Num(0))),
     gasLimit |-> convert2HexString(OrElse(data.gasLimit, Num(0))),
     data |-> data.data,
     chainId |-> convert2HexString(OrElse(data.chainId, Num(DefaultChainId))),
     type |-> data.type,
     maxPriorityFeePerGas |-> convert2HexString(OrElse(data.maxPriorityFeePerGas, Num(0))),
     maxFeePerGas |-> convert2HexString(OrElse(data.maxFeePerGas, Num(0))),
     authorizationList |-> OrElse(data.authorizationList, List(<<>>)),
     useValue |-> OrElse(data.useValue, Bool(FALSE))]

\* EthWallet.convert2TxParam
convert2TxParam(data) ==
    [to |-> data.to,
     value |-> convert2HexString(OrElse(data.value, Num(0))),
     nonce |-> convert2HexString(data.nonce),
     contractAddress |-> data.contractAddress,
     gasPrice |-> convert2HexString(OrElse(data.gasPrice, Num(0))),
     gasLimit |-> convert2HexString(OrElse(data.gasLimit, Num(0))),
     data |-> data.data,
     chainId |-> convert2HexString(OrElse(data.chainId, Num(DefaultChainId))),
     type |-> OrElse(data.type, Num(0)),
     maxPriorityFeePerGas |-> convert2HexString(OrElse(data.maxPriorityFeePerGas, Num(0))),
     maxFeePerGas |-> convert2HexString(OrElse(data.maxFeePerGas, Num(0))),
     authorizationList |-> OrElse(data.authorizationList, List(<<>>)),
     useValue |-> OrElse(data.useValue, Bool(FALSE))]

\* type === n
TypeIs(type, n) == type.t = "number" /\ type.n = n

\* The ERC-20 transfer call data of lines 152-155, 181-184 and 209-212.
TokenCallData(toAddress, value) ==
    LET enc == abi_RawEncode(toAddress, value)
    IN IF enc.ok THEN Ok(Txt(TOKEN_TRANSFER_FUNCTION_SIGNATURE \o enc.val)) ELSE enc

\* LegacyTokenValue with the useValue test dropped: the value is always zeroed.
LegacyTokenValueZeroed(txParams) == Txt(<<"0", "x", "0">>)

\* The native value of a type 0/1 token transfer (lines 156-158).
LegacyTokenValue(txParams) == IF ~Truthy(txParams.useValue) THEN Txt(<<"0", "x", "0">>) ELSE txParams.value

\* txData of the type 0/1 branch (lines 146-172).
LegacyTxData(txParams) ==
    LET tokenAddress == txParams.contractAddress
        call == TokenCallData(txParams.to, txParams.value)
    IN IF Truthy(tokenAddress) /\ ~call.ok THEN call
       ELSE Ok([nonce |-> txParams.nonce,
                gasPrice |-> txParams.gasPrice,
                gasLimit |-> txParams.gasLimit,
                to |-> IF Truthy(tokenAddress) THEN tokenAddress ELSE txParams.to,
                value |-> IF Truthy(tokenAddress) THEN LegacyTokenValue(txParams) ELSE txParams.value,
                data |-> IF Truthy(tokenAddress) THEN call.val ELSE txParams.data,
                chainId |-> txParams.chainId,
                type |-> txParams.type])

\* txData of the type 2 branch (lines 176-200).
FeeMarketTxData(txParams) ==
    LET tokenAddress == txParams.contractAddress
        call == TokenCallData(txParams.to, txParams.value)
    IN IF Truthy(tokenAddress) /\ ~call.ok THEN call
       ELSE Ok([nonce |-> txParams.nonce,
                gasLimit |-> txParams.gasLimit,
                to |-> IF Truthy(tokenAddress) THEN tokenAddress ELSE txParams.to,
                value |-> IF Truthy(tokenAddress) THEN Txt(<<"0", "x", "0">>) ELSE txParams.value,
                data |-> IF Truthy(tokenAddress) THEN call.val ELSE txParams.data,
                chainId |-> txParams.chainId,
                type |-> txParams.type,
                maxPriorityFeePerGas |-> txParams.maxPriorityFeePerGas,
                maxFeePerGas |-> txParams.maxFeePerGas])

\* txData of the type 4 branch (lines 204-229).
DelegatedAuthTxData(txParams) ==
    LET tokenAddress == txParams.contractAddress
        call == TokenCallData(txParams.to, txParams.value)
    IN IF Truthy(tokenAddress) /\ ~call.ok THEN call
       ELSE Ok([nonce |-> txParams.nonce,
                gasLimit |-> txParams.gasLimit,
                to |-> IF Truthy(tokenAddress) THEN tokenAddress ELSE txParams.to,
                value |-> IF Truthy(tokenAddress) THEN Txt(<<"0", "x", "0">>) ELSE txParams.value,
                data |-> IF Truthy(tokenAddress) THEN call.val ELSE txParams.data,
                chainId |-> txParams.chainId,
                type |-> txParams.type,
                maxPriorityFeePerGas |-> txParams.maxPriorityFeePerGas,
                maxFeePerGas |-> txParams.maxFeePerGas,
                authorizationList |-> txParams.authorizationList])

\* TypeBranch with == in place of ===: the text "2" is taken for the number 2.
TypeBranchLoose(type) ==
    CASE TypeIs(type, 0) \/ TypeIs(type, 1) -> "legacy"
      [] TypeIs(type, 2) \/ (type.t = "string" /\ BigNumber(type) = 2) -> "feeMarket"
      [] TypeIs(type, 4) -> "delegatedAuth"
      [] OTHER -> "none"

\* The branch of signTransaction that a normalized type takes:
\* "legacy", "feeMarket", "delegatedAuth" or "none" (lines 145, 174, 202).
TypeBranch(type) ==
    CASE TypeIs(type, 0) \/ TypeIs(type, 1) -> "legacy"
      [] TypeIs(type, 2) -> "feeMarket"
      [] TypeIs(type, 4) -> "delegatedAuth"
      [] OTHER -> "none"

\* The private key check of lines 135-138: the steps taken and whether it threw.
SignTxKeyCheck(privateKey) ==
    IF ~Truthy(privateKey) THEN [ok |-> TRUE, trace |-> <<>>]
    ELSE LET dec == fromHex(privateKey) IN
         IF ~dec.ok THEN [ok |-> FALSE, trace |-> <<"decodeKey">>]
         ELSE [ok |-> assertBufferLength(dec.val, KeyBytes).ok, trace |-> <<"decodeKey", "assertKey">>]

\* EthWallet.signTransaction: its outcome, the steps it took and the txData it
\* built (NoTx when it built none).
EthSignTransaction(param) ==
    LET check == SignTxKeyCheck(param.privateKey) IN
    IF ~check.ok
    THEN [res |-> Reject(SignTxError), trace |-> check.trace, built |-> NoTx]
    ELSE IF param.data.t # "object"
    THEN [res |-> Reject(SignTxError), trace |-> check.trace \o <<"normalize">>, built |-> NoTx]
    ELSE LET txParams == convert2TxParam(param.data)
             branch == TypeBranch(txParams.type)
             tx == CASE branch = "legacy" -> LegacyTxData(txParams)
                     [] branch = "feeMarket" -> FeeMarketTxData(txParams)
                     [] branch = "delegatedAuth" -> DelegatedAuthTxData(txParams)
                     [] OTHER -> Throw(Raw("none"))
         IN IF branch = "none"
            THEN [res |-> Reject(SignTxError), trace |-> check.trace \o <<"normalize">>, built |-> NoTx]
            ELSE IF ~tx.ok
            THEN [res |-> Reject(SignTxError), trace |-> check.trace \o <<"normalize", "encodeCall">>, built |-> NoTx]
            ELSE LET signed == eth_signTransaction(param.privateKey, tx.val) IN
                 [res |-> IF signed.ok THEN Resolve(signed.val) ELSE Reject(SignTxError),
                  trace |-> check.trace \o <<"normalize">>
                            \o (IF Truthy(txParams.contractAddress) THEN <<"encodeCall">> ELSE <<>>)
                            \o <<"build", "sign">>,
                  built |-> tx.val]

\* An outcome with the steps taken and what was built or signed over.
Out(res, trace, built) == [res |-> res, trace |-> trace, built |-> built]

\* EthWallet.getNewAddress (lines 73-86): an invalid key throws before the
\* try block; inside it every exception is swallowed and NewAddressError
\* follows.
EthGetNewAddress(param) ==
    LET pri == param.privateKey IN
    IF ~eth_validPrivateKey(pri) THEN Out(Reject(Raw("invalid key")), <<"validate">>, NoTx)
    ELSE LET privateKey == fromHex(Txt(LowerCase(pri.s))) IN
         IF privateKey.ok /\ assertBufferLength(privateKey.val, KeyBytes).ok
         THEN Out(Resolve(eth_getNewAddress(Txt(LowerCase(pri.s)))), <<"validate", "decodeKey", "assertKey", "derive">>, NoTx)
         ELSE Out(Reject(NewAddressError), <<"validate", "decodeKey", "assertKey">>, NoTx)

\* EthWallet.validPrivateKey (lines 88-95)
EthValidPrivateKey(param) ==
    Out(Resolve([t |-> "validPrivateKey", isValid |-> eth_validPrivateKey(param.privateKey), privateKey |-> param.privateKey]),
        <<"validate">>, NoTx)

\* AuthAddressBytes with the leading zero bytes removed, as for a quantity.
AuthAddressBytesUnpadded(address) == LET b == hexToBytes(address) IN IF b.ok THEN Ok(unpadBytes(b.val)) ELSE b

\* The bytes of the address of an authorization item (line 256).
AuthAddressBytes(address) == hexToBytes(address)

\* The bytes of the nonce of an authorization item (lines 252-253).
AuthNonceBytes(nonce) ==
    IF nonce.t # "undefined"
    THEN LET b == hexToBytes(nonce) IN IF b.ok THEN Ok(unpadBytes(b.val)) ELSE b
    ELSE Ok(<<>>)

\* The bytes of the chain id of an authorization item (line 251).
AuthChainIdBytes(chainId) == LET b == hexToBytes(chainId) IN IF b.ok THEN Ok(unpadBytes(b.val)) ELSE b

\* The digest an authorization item is signed over (lines 258-259).
AuthMsgToSign(chainIdBytes, addressBytes, nonceBytes) ==
    keccak256(<<AuthMagic>> \o RlpEncode(<<chainIdBytes, addressBytes, nonceBytes>>))

\* yParity of a signature (line 267).
YParity(v) == IF v - VOffset = 0 THEN Txt(Hx(<<>>)) ELSE Txt(Hx(<<"1">>))

\* EthWallet.signAuthorizationListItem (lines 242-273); nothing is caught.
EthSignAuthorizationListItem(param) ==
    IF ~Truthy(param.privateKey) THEN Out(Reject(Raw("privateKey is invalid")), <<>>, NoTx)
    ELSE LET dec == fromHex(param.privateKey) IN
    IF ~dec.ok THEN Out(Reject(dec.err), <<"decodeKey">>, NoTx)
    ELSE IF ~assertBufferLength(dec.val, KeyBytes).ok
    THEN Out(Reject(Raw("buffer length is illegal")), <<"decodeKey", "assertKey">>, NoTx)
    ELSE LET chainIdBytes == AuthChainIdBytes(param.data.chainId)
             nonceBytes == AuthNonceBytes(param.data.nonce)
             addressBytes == AuthAddressBytes(param.data.address)
         IN
    IF ~chainIdBytes.ok \/ ~nonceBytes.ok \/ ~addressBytes.ok
    THEN Out(Reject(Raw("hexToBytes")), <<"decodeKey", "assertKey", "normalize">>, NoTx)
    ELSE LET msgToSign == AuthMsgToSign(chainIdBytes.val, addressBytes.val, nonceBytes.val)
             signed == ecdsaSign(msgToSign, dec.val)
         IN
    IF ~signed.ok
    THEN Out(Reject(signed.err), <<"decodeKey", "assertKey", "normalize", "hash", "sign">>,
             [t |-> "signedMsg", msg |-> msgToSign])
    ELSE Out(Resolve([t |-> "auth",
                      chainId |-> bytesToHex(chainIdBytes.val),
                      address |-> param.data.address,
                      nonce |-> bytesToHex(nonceBytes.val),
                      yParity |-> YParity(signed.val.v),
                      r |-> bytesToHex(unpadBytes(signed.val.r)),
                      s |-> bytesToHex(unpadBytes(signed.val.s))]),
             <<"decodeKey", "assertKey", "normalize", "hash", "sign">>,
             [t |-> "signedMsg", msg |-> msgToSign])

\* toRpcHex without the fallback to a single 0 digit.
toRpcHexBare(hex) == Hx(StripZeroChars(Drop(hex, 2)))

\* EthWallet.toRpcHex (lines 293-297)
toRpcHex(hex) ==
    LET body == Drop(hex, 2)
        trimmedBody == IF StripZeroChars(body) = <<>> THEN <<"0">> ELSE StripZeroChars(body)
    IN Hx(trimmedBody)

\* EthWallet.toRpcAuth (lines 283-291)
toRpcAuth(auth) ==
    [auth EXCEPT !.chainId = Txt(toRpcHex(@.s)),
                 !.nonce = Txt(toRpcHex(@.s)),
                 !.yParity = Txt(toRpcHex(@.s)),
                 !.r = Txt(toRpcHex(@.s)),
                 !.s = Txt(toRpcHex(@.s))]

\* eth.signMessage(type, message, privateKey): the signature of the message
\* digest, or the digest itself when there is no key.
eth_signMessage(type, message, privateKey) ==
    IF type \notin {Num(0), Num(1)} THEN Throw(Raw("unsupported message type"))
    ELSE LET hash == keccak256([t |-> "message", type |-> type, message |-> message]) IN
         IF privateKey.t = "undefined" THEN Ok(hash)
         ELSE IF ~ScalarInRange(privateKey.b) THEN Throw(Raw("invalid private key"))
         ELSE Ok(FullSig(SignRS(hash, privateKey.b), RecIdOf(privateKey.b)))

\* EthWallet.signMessage (lines 299-309); nothing is caught.
EthSignMessage(param) ==
    LET check == SignTxKeyCheck(param.privateKey) IN
    IF ~check.ok THEN Out(Reject(Raw("buffer length is illegal")), check.trace, NoTx)
    ELSE LET privateKey == IF Truthy(param.privateKey)
                           THEN [t |-> "bytes", b |-> fromHex(param.privateKey).val]
                           ELSE Undef
             result == eth_signMessage(param.data.type, param.data.message, privateKey)
         IN Out(IF result.ok THEN Resolve(result.val) ELSE Reject(result.err),
                check.trace \o (IF Truthy(param.privateKey) THEN <<"decodeKey", "hash", "sign">> ELSE <<"hash">>),
                NoTx)

\* x.f of a value that may be a text: a text has no such property.
Prop(x, f) == IF f \in DOMAIN x THEN x[f] ELSE Undef

\* MpcRawContinuation handing back the signing payload in place of the raw
\* transaction.
MpcRawContinuationPayload(inner) ==
    IF inner.res.kind = "reject" THEN Reject(GetMpcRawTransactionError)
    ELSE Resolve([t |-> "mpcRaw", raw |-> Prop(inner.res.val, "serializeRaw"), hash |-> Prop(inner.res.val, "hash")])

\* EthWallet.getMPCRawTransaction after its await (lines 355-362).
MpcRawContinuation(inner) ==
    IF inner.res.kind = "reject" THEN Reject(GetMpcRawTransactionError)
    ELSE Resolve([t |-> "mpcRaw", raw |-> Prop(inner.res.val, "raw"), hash |-> Prop(inner.res.val, "hash")])

\* eth.getMPCTransaction(raw, sigs, publicKey): decodes the unsigned
\* transaction, derives its hash again, finds the recovery id under which the
\* signature recovers publicKey, and serializes the signed transaction.
eth_getMPCTransaction(raw, sigs, publicKey) ==
    IF raw.t # "serialized" \/ sigs.t # "rs" \/ publicKey.t # "pubkey" THEN Throw(Raw("decode"))
    ELSE IF sigs.h # TxHash(raw.tx) \/ sigs.by # publicKey THEN Throw(Raw("no recovery id"))
    ELSE Ok(Serialized(raw.tx, FullSig(sigs, RecIdOf(publicKey.of))))

\* EthWallet.getMPCTransaction (lines 365-372)
EthGetMPCTransaction(param) ==
    LET signedTx == eth_getMPCTransaction(param.raw, param.sigs, param.publicKey)
    IN Out(IF signedTx.ok THEN Resolve(signedTx.val) ELSE Reject(GetMpcTransactionError), <<"assemble">>, NoTx)

\* EthWallet.getHardWareRawTransaction after its await (lines 393-397).
HardwareRawContinuation(inner) ==
    IF inner.res.kind = "reject" THEN Reject(GetHardwareRawTransactionError)
    ELSE Resolve(Prop(inner.res.val, "serializeRaw"))

\* The v of a signature with recovery id recid over the transaction canon.
VFor(canon, recid) == IF "gasPrice" \in DOMAIN canon THEN canon.chainId.n * 2 + 35 + recid ELSE recid

\* eth.getSignedTransaction(raw, r, s, v): the signing payload with the
\* signature attached.
eth_getSignedTransaction(raw, rs, v) ==
    IF raw.t # "signingPayload" \/ rs.t # "rs" \/ v.t # "number" THEN Throw(Raw("decode"))
    ELSE IF v.n - VFor(raw.tx, 0) \notin {0, 1} THEN Throw(Raw("invalid v"))
    ELSE Ok(Serialized(raw.tx, FullSig(rs, v.n - VFor(raw.tx, 0))))

\* EthWallet.getHardWareSignedTransaction (lines 401-407)
EthGetHardWareSignedTransaction(param) ==
    LET signedTx == eth_getSignedTransaction(param.raw, param.rs, param.v)
    IN Out(IF signedTx.ok THEN Resolve(signedTx.val) ELSE Reject(GetHardwareSignedTransactionError), <<"assemble">>, NoTx)

\* EthWallet.calcTxHash (lines 409-413); nothing is caught.
EthCalcTxHash(param) ==
    IF param.data.t = "serialized" /\ param.data.sig # NoSig
    THEN Out(Resolve(keccak256(param.data)), <<"decode", "hash">>, NoTx)
    ELSE Out(Reject(Raw("invalid serialized transaction")), <<"decode">>, NoTx)

\* ----------------------------------------------- Sui helpers outside this file
SUI_PRIVATE_KEY_PREFIX == <<"s", "u", "i", "p", "r", "i", "v", "k", "e", "y">>

\* The check digit of a key payload.
CheckDigit(bytes) == HexChars[(SumBytes(bytes) % 16) + 1]

\* encodeSuiPrivateKey: the prefix, the separator 1, the scheme flag and the
\* seed in hex, and a check digit.
encodeSuiPrivateKey(flag, seed) ==
    Txt(SUI_PRIVATE_KEY_PREFIX \o <<"1">> \o BytesToChars(<<flag>> \o seed) \o <<CheckDigit(<<flag>> \o seed)>>)

\* tryDecodeSuiPrivateKey: the seed in hex; throws when the prefix, the check
\* digit, the scheme flag or the length does not match.
tryDecodeSuiPrivateKey(v) ==
    IF v.t # "string" \/ Len(v.s) < 12 \/ SubSeq(v.s, 1, 11) # SUI_PRIVATE_KEY_PREFIX \o <<"1">>
    THEN Throw(Raw("invalid private key prefix"))
    ELSE LET body == SubSeq(v.s, 12, Len(v.s) - 1)
             bytes == DecodePairs(body)
         IN IF 2 * Len(bytes) # Len(body) \/ v.s[Len(v.s)] # CheckDigit(bytes)
            THEN Throw(Raw("invalid checksum"))
            ELSE IF Len(bytes) # KeyBytes + 1 \/ bytes[1] # 0
            THEN Throw(Raw("invalid private key"))
            ELSE Ok(Txt(BytesToChars(Tail(bytes))))

\* Ed25519Keypair.fromSeed and new RawSigner: the signer of a seed.
SignerOf(seed) == [t |-> "signer", seed |-> seed]
\* signer.getAddress(): the address of the signer's public key.
SuiAddressOf(signer) == [t |-> "suiAddress", of |-> signer.seed]
\* getAddressFromPrivate
getAddressFromPrivate(seedHex) ==
    [t |-> "address", address |-> SuiAddressOf(SignerOf(fromHex(seedHex).val)), publicKey |-> [t |-> "ed25519pub", of |-> fromHex(seedHex).val]]

\* A base64 text, by the bytes it encodes; Malformed encodes none.
B64(bytes) == [t |-> "base64", of |-> bytes]
Malformed == B64([t |-> "malformed"])
\* base.fromBase64
fromBase64(v) == IF v.t = "base64" /\ v.of.t # "malformed" THEN Ok(v.of) ELSE Throw(Raw("invalid base64"))

\* BigInt(text): the integer of a decimal text; any other text throws.
BigIntOf(v) ==
    IF v.t = "string" /\ (\A k \in 1..Len(v.s) : IsDecChar(v.s[k])) THEN Ok(DecVal(v.s)) ELSE Throw(Raw("SyntaxError"))

\* signer.signTransactionBlock: the block with the signer's signature.
signTransactionBlock(signer, block) ==
    [t |-> "signedBlock", transactionBlockBytes |-> block, signature |-> [t |-> "ed25519sig", over |-> block, by |-> signer.seed]]

\* new TransactionBlock()
NewTransactionBlock == [t |-> "block", gasPrice |-> Undef, gasBudget |-> Undef, expiration |-> Undef,
                        gasPayment |-> Undef, sender |-> Undef, commands |-> <<>>]

\* Whether tx.build() succeeds: the recipient must be an address of 32 bytes.
BuildOk(tx, recipient) ==
    recipient.t = "string" /\ HasPrefix0x(recipient.s) /\ IsHexText(recipient.s) /\ Len(recipient.s) = 2 + 2 * SuiAddressBytes

\* ------------------------------------------------------------- SuiWallet
\* SuiWallet.validPrivateKey (lines 518-530)
SuiValidPrivateKey(param) ==
    Out(Resolve([t |-> "validPrivateKey", isValid |-> tryDecodeSuiPrivateKey(param.privateKey).ok, privateKey |-> param.privateKey]),
        <<"validate">>, NoTx)

\* SuiValidAddress without the catch around the decoding.
SuiValidAddressUncaught(param) ==
    LET array == fromHex(param.address)
    IN IF array.ok
       THEN Out(Resolve([t |-> "validAddress", isValid |-> Len(array.val) = SuiAddressBytes, address |-> param.address]),
                <<"validate">>, NoTx)
       ELSE Out(Reject(array.err), <<"validate">>, NoTx)

\* SuiWallet.validAddress (lines 594-608)
SuiValidAddress(param) ==
    LET array == fromHex(param.address)
        isValid == IF array.ok THEN Len(array.val) = SuiAddressBytes ELSE FALSE
    IN Out(Resolve([t |-> "validAddress", isValid |-> isValid, address |-> param.address]), <<"validate">>, NoTx)

\* SuiWallet.getNewAddress (lines 505-516)
SuiGetNewAddress(param) ==
    LET seed == tryDecodeSuiPrivateKey(param.privateKey)
    IN Out(IF seed.ok THEN Resolve(getAddressFromPrivate(seed.val)) ELSE Reject(NewAddressError), <<"decodeKey">>, NoTx)

\* SuiWallet.calcTxHash (lines 610-617)
SuiCalcTxHash(param) ==
    LET bytes == fromBase64(param.data)
    IN Out(IF bytes.ok THEN Resolve([t |-> "digest", of |-> bytes.val]) ELSE Reject(CalcTxHashError), <<"decode">>, NoTx)

\* PaySuiSender with the signer kept where every call finds it: the sender is
\* the address of the signer of the first call in flight.
PaySuiSenderShared(signer) ==
    LET holders == {j \in DOMAIN calls : "signer" \in DOMAIN calls[j]}
    IN SuiAddressOf(calls[CHOOSE j \in holders : \A k \in holders : j <= k].signer)

\* The sender a paySUI call sets on its block: the address of its own signer
\* (lines 576-577).
PaySuiSender(signer) == SuiAddressOf(signer)

\* The expiration a paySUI call sets (lines 572-574).
PaySuiExpiration(epoch) == IF Truthy(epoch) THEN [t |-> "expiration", Epoch |-> epoch] ELSE Undef

\* NoInputCoins without the test of the length: only an absent set counts.
NoInputCoinsAbsentOnly(ps) == ps.inputCoins.t = "undefined"

\* The paySUI request ps names no input coin (line 567).
NoInputCoins(ps) == ps.inputCoins.t = "undefined" \/ Len(ps.inputCoins.l) = 0

\* SuiWallet.signTransaction up to its first promise (lines 553-576, 587-591):
\* a settled outcome, or the position it waits at with its signer and block.
SuiSignStart(param) ==
    LET seed == tryDecodeSuiPrivateKey(param.privateKey)
        failed == [pc |-> "done", op |-> "SuiWallet.signTransaction", param |-> param, res |-> Reject(SignTxError)]
    IN
    IF ~seed.ok THEN failed
    ELSE LET signer == SignerOf(fromHex(seed.val).val)
             data == param.data
         IN
    IF data.t # "object" THEN failed
    ELSE IF data.type = Txt(<<"r", "a", "w">>)
    THEN LET d == fromBase64(data.data) IN
         IF ~d.ok THEN failed
         ELSE [pc |-> "sign", op |-> "SuiWallet.signTransaction", param |-> param, res |-> Pending,
               signer |-> signer, tx |-> d.val]
    ELSE IF data.type = Txt(<<"p", "a", "y", "S", "U", "I">>)
    THEN LET ps == data.data IN
         IF NoInputCoins(ps) THEN failed
         ELSE IF ~BigIntOf(ps.gasPrice).ok \/ ~BigIntOf(ps.gasBudget).ok THEN failed
         ELSE [pc |-> "getAddress", op |-> "SuiWallet.signTransaction", param |-> param, res |-> Pending,
               signer |-> signer,
               tx |-> [NewTransactionBlock EXCEPT !.gasPrice = Num(BigIntOf(ps.gasPrice).val),
                                                  !.gasBudget = Num(BigIntOf(ps.gasBudget).val),
                                                  !.expiration = PaySuiExpiration(ps.epoch),
                                                  !.gasPayment = ps.inputCoins]]
    ELSE failed

\* The callback of signer.getAddress() (lines 576-580): sender, split and
\* transfer, then tx.build(); an exception rejects with the raw error.
SuiAfterAddress(c) ==
    LET ps == c.param.data.data
        amount == BigIntOf(ps.amount)
    IN IF ~amount.ok
       THEN [c EXCEPT !.pc = "done", !.res = Reject(amount.err), !.tx.sender = PaySuiSender(c.signer)]
       ELSE [c EXCEPT !.pc = "build",
                      !.tx.sender = PaySuiSender(c.signer),
                      !.tx.commands = <<[t |-> "SplitCoins", coin |-> "gas", amount |-> amount.val],
                                        [t |-> "TransferObjects", recipient |-> ps.recipient]>>]

\* The callback of tx.build() (lines 580-585): the built block goes to the
\* signer; a failed build rejects with the raw error.
SuiAfterBuild(c) ==
    IF BuildOk(c.tx, c.param.data.data.recipient)
    THEN [c EXCEPT !.pc = "sign"]
    ELSE [c EXCEPT !.pc = "done", !.res = Reject(Raw("build failed"))]

\* The promise of signer.signTransactionBlock settles (lines 560-563, 581-584).
SuiAfterSign(c) == [c EXCEPT !.pc = "done", !.res = Resolve(signTransactionBlock(c.signer, c.tx))]

\* --------------------------------------------------------------- inputs
GoodKey == Txt(Hx(Rep(<<"a", "b">>, KeyBytes)))
GoodKey2 == Txt(Rep(<<"1", "2">>, KeyBytes))
ShortKey == Txt(Hx(Rep(<<"a", "b">>, KeyBytes - 1)))
LongKey == Txt(Hx(Rep(<<"a", "b">>, KeyBytes + 1)))
ZeroKey == Txt(Hx(Rep(<<"0", "0">>, KeyBytes)))
EmptyKey == Txt(<<>>)
EthKeys == {Undef, EmptyKey, ShortKey, LongKey, ZeroKey, GoodKey, GoodKey2}

Recipient == Txt(Hx(<<"0", "0">> \o Rep(<<"1", "1">>, 19)))
TokenAddr == Txt(Hx(Rep(<<"c", "c">>, 20)))
AuthItem == [t |-> "auth", chainId |-> Txt(Hx(<<"0", "1">>)), address |-> TokenAddr, nonce |-> Txt(Hx(<<>>))]

TxTypes == {Undef, Num(0), Num(1), Num(2), Num(3), Num(4), Txt(<<"2">>)}

\* The chain and fee fields of a request: all unset, all set, or unset with
\* the nonce missing too.
FeeProfiles ==
    {[nonce |-> Num(7), gasPrice |-> Undef, gasLimit |-> Undef, chainId |-> Undef,
      maxPriorityFeePerGas |-> Undef, maxFeePerGas |-> Undef, authorizationList |-> Undef],
     [nonce |-> Txt(<<"1", "2">>), gasPrice |-> Txt(Hx(<<"0", "a">>)), gasLimit |-> Num(21000), chainId |-> Num(5),
      maxPriorityFeePerGas |-> Num(2), maxFeePerGas |-> Txt(<<"3", "0">>), authorizationList |-> List(<<AuthItem>>)],
     [nonce |-> Undef, gasPrice |-> Undef, gasLimit |-> Undef, chainId |-> Num(0),
      maxPriorityFeePerGas |-> Undef, maxFeePerGas |-> Undef, authorizationList |-> Undef]}

TxData(type, to, ca, uv, value, data, fp) ==
    [t |-> "object", to |-> to, value |-> value, useValue |-> uv, nonce |-> fp.nonce,
     contractAddress |-> ca, gasPrice |-> fp.gasPrice, gasLimit |-> fp.gasLimit, data |-> data,
     chainId |-> fp.chainId, type |-> type, maxPriorityFeePerGas |-> fp.maxPriorityFeePerGas,
     maxFeePerGas |-> fp.maxFeePerGas, authorizationList |-> fp.authorizationList]

\* Requests to sign: every type with every token, useValue, value and fee
\* setting, and the recipient and call data set or unset with and without a
\* token.
TxDatas ==
    {TxData(type, Recipient, ca, uv, value, Undef, fp) :
        type \in TxTypes, ca \in {Undef, Txt(<<>>), TokenAddr},
        uv \in {Undef, Bool(TRUE)}, value \in {Undef, Txt(Hx(<<"0", "5">>)), Num(16)}, fp \in FeeProfiles}
    \cup {TxData(type, to, ca, Bool(TRUE), Num(16), data, CHOOSE f \in FeeProfiles : f.nonce = Num(7)) :
            type \in {Num(0), Num(2), Num(4)}, to \in {Recipient, Undef}, ca \in {Undef, TokenAddr},
            data \in {Undef, Txt(Hx(<<"a", "b">>))}}

SignTxParams == {[privateKey |-> k, data |-> d] : k \in EthKeys, d \in TxDatas \cup {Undef}}

UpperKey == Txt(Hx(Rep(<<"A", "B">>, KeyBytes)))
NonHexKey == Txt(Hx(Rep(<<"a", "b">>, KeyBytes - 1) \o <<"z", "z">>))
KeyTexts == (EthKeys \ {Undef}) \cup {UpperKey, NonHexKey}

\* The requests of the two-phase paths.
MpcTxDatas ==
    {TxData(type, Recipient, ca, uv, Num(16), Undef, fp) :
        type \in {Num(0), Num(2), Num(3), Num(4)}, ca \in {Undef, TokenAddr}, uv \in {Undef, Bool(TRUE)},
        fp \in {f \in FeeProfiles : f.nonce # Undef}}
Phase1Params == {[privateKey |-> k, data |-> d] : k \in {Undef, EmptyKey, ShortKey, GoodKey}, d \in MpcTxDatas}

\* A request that is signed in two phases alongside the others.
OtherData == TxData(Num(0), Recipient, Undef, Undef, Num(16), Undef, CHOOSE f \in FeeProfiles : f.nonce = Num(7))
\* What phase 1 hands back for a request.
UnsignedOf(d) == EthSignTransaction([privateKey |-> Undef, data |-> d]).res
\* The requests phase 1 accepts, each with what it hands back.
Handed == {h \in {[d |-> d, u |-> UnsignedOf(d)] : d \in MpcTxDatas} : h.u.kind = "resolve"}
SignableDatas == {h.d : h \in Handed}
KeyBytesOf(k) == fromHex(k).val
\* The keys of the external signers.
SignerKeys == {GoodKey, GoodKey2}

\* What an MPC signer holding the key bytes kb sends to phase 2 for the
\* handed-back h: the matching triple, and the triples with a signature over
\* another request, another public key, or no raw transaction.
MpcTriples(h, other, kb) ==
    {[raw |-> h.raw, sigs |-> SignRS(h.hash, kb), publicKey |-> PubKeyOf(kb)],
     [raw |-> h.raw, sigs |-> SignRS(other.hash, kb), publicKey |-> PubKeyOf(kb)],
     [raw |-> h.raw, sigs |-> SignRS(h.hash, kb), publicKey |-> PubKeyOf(Rep(<<0>>, KeyBytes))],
     [raw |-> Undef, sigs |-> SignRS(h.hash, kb), publicKey |-> PubKeyOf(kb)]}

MpcPhase2Params ==
    UNION {MpcTriples(h.u.val, (CHOOSE o \in Handed : o # h).u.val, kb) :
           h \in Handed, kb \in {KeyBytesOf(k) : k \in SignerKeys}}

\* The device's signature of a signing payload: r, s and v.
DeviceSign(payload, kb) == [rs |-> SignRS(keccak256(payload), kb), v |-> Num(VFor(payload.tx, RecIdOf(kb)))]

\* What a device sends to phase 2 for the signing payload and its signature
\* sig: the matching triple, one with a v that fits no recovery id, and one
\* without the payload.
HardwareTriples(payload, sig) ==
    {[raw |-> payload, rs |-> sig.rs, v |-> sig.v],
     [raw |-> payload, rs |-> sig.rs, v |-> Num(7)],
     [raw |-> Undef, rs |-> sig.rs, v |-> sig.v]}

HardwarePhase2Params ==
    UNION {HardwareTriples(h.u.val.serializeRaw, DeviceSign(h.u.val.serializeRaw, kb)) :
           h \in Handed, kb \in {KeyBytesOf(k) : k \in SignerKeys}}

\* Serialized transactions to hash: signed ones, unsigned ones, and none.
CalcTxHashParams ==
    {[data |-> EthSignTransaction([privateKey |-> GoodKey, data |-> h.d]).res.val] : h \in Handed}
    \cup {[data |-> h.u.val.raw] : h \in Handed} \cup {[data |-> Undef]}

\* Authorization items to sign.
AuthDatas ==
    {[chainId |-> c, address |-> a, nonce |-> n] :
        c \in {Txt(Hx(<<>>)), Txt(Hx(<<"0", "0">>)), Txt(Hx(<<"1">>)), Txt(Hx(<<"0", "0", "0", "1">>)),
               Txt(Hx(<<"0", "1", "0", "0">>)), Txt(<<"1">>)},
        a \in {Recipient, TokenAddr},
        n \in {Undef, Txt(Hx(<<>>)), Txt(Hx(<<"0", "0">>)), Txt(Hx(<<"0", "5">>)), Txt(Hx(<<"0", "a", "0", "0">>))}}
AuthParams == {[privateKey |-> k, data |-> d] : k \in EthKeys, d \in AuthDatas}

\* The hex texts 0x... with a body of at most MaxBody digits.
HexTexts == UNION {{Hx(b) : b \in [1..n -> {"0", "1", "a"}]} : n \in 0..MaxBody}
RpcAuths == {[t |-> "auth", chainId |-> Txt(h), address |-> Recipient, nonce |-> Txt(h),
              yParity |-> Txt(Hx(<<>>)), r |-> Txt(h), s |-> Txt(Hx(<<"0", "0", "a", "0">>))] : h \in HexTexts}

MessageParams ==
    {[privateKey |-> k, data |-> [type |-> ty, message |-> Txt(<<"a", "b">>)]] : k \in EthKeys, ty \in {Num(0), Num(1), Num(9)}}

\* Sui keys: two good ones, and one each with a wrong prefix, check digit,
\* scheme flag and seed length.
SuiKey1 == encodeSuiPrivateKey(0, Rep(<<17>>, KeyBytes))
SuiKey2 == encodeSuiPrivateKey(0, Rep(<<34>>, KeyBytes))
SuiKeys ==
    {SuiKey1, SuiKey2,
     Txt(<<"x">> \o Tail(SuiKey1.s)),
     Txt(SubSeq(SuiKey1.s, 1, Len(SuiKey1.s) - 1) \o <<"z">>),
     encodeSuiPrivateKey(1, Rep(<<17>>, KeyBytes)),
     encodeSuiPrivateKey(0, Rep(<<17>>, KeyBytes - 1)),
     GoodKey, EmptyKey}

SuiAddr1 == Txt(Hx(Rep(<<"0", "0">>, 1) \o Rep(<<"e", "e">>, SuiAddressBytes - 1)))
SuiAddresses ==
    {SuiAddr1, Txt(Drop(SuiAddr1.s, 2)), Txt(SubSeq(SuiAddr1.s, 1, 2 * SuiAddressBytes)),
     Txt(SuiAddr1.s \o <<"e", "e">>), Txt(SuiAddr1.s \o <<"z", "z">>), Txt(Hx(<<"z", "z">>) \o Drop(SuiAddr1.s, 2)),
     Txt(SubSeq(SuiAddr1.s, 1, 2 * SuiAddressBytes + 1)), EmptyKey, Undef}

Coin1 == [t |-> "coin", objectId |-> 1]
Coin2 == [t |-> "coin", objectId |-> 2]
Block1 == [t |-> "block", bytes |-> <<1, 2, 3>>]
Block2 == [t |-> "block", bytes |-> <<4>>]

PaySui(coins, recipient, amount, gasPrice, epoch) ==
    [t |-> "object", type |-> Txt(<<"p", "a", "y", "S", "U", "I">>),
     data |-> [inputCoins |-> coins, recipient |-> recipient, amount |-> amount,
               gasBudget |-> Txt(<<"1", "0", "0", "0">>), gasPrice |-> gasPrice, epoch |-> epoch]]
RawSui(b) == [t |-> "object", type |-> Txt(<<"r", "a", "w">>), data |-> b]

SuiSignDatas ==
    {PaySui(coins, recipient, amount, gasPrice, epoch) :
        coins \in {Undef, List(<<>>), List(<<Coin1>>), List(<<Coin1, Coin2>>)},
        recipient \in {SuiAddr1, Txt(Hx(<<"e", "e">>))},
        amount \in {Txt(<<"1", "0", "0">>), Txt(<<"a", "b", "c">>)},
        gasPrice \in {Txt(<<"1", "0">>), Txt(<<"x">>)},
        epoch \in {Undef, Num(0), Num(5)}}
    \cup {RawSui(B64(Block1)), RawSui(Malformed),
          [t |-> "object", type |-> Txt(<<"o", "t", "h", "e", "r">>), data |-> B64(Block1)], Undef}
SuiSignParams == {[privateKey |-> k, data |-> d] : k \in {SuiKey1, SuiKey2, GoodKey}, d \in SuiSignDatas}

\* The calls of the overlapping callers.
ConcSuiParams ==
    {[privateKey |-> k, data |-> d] :
        k \in {SuiKey1, SuiKey2},
        d \in {PaySui(List(<<Coin1>>), SuiAddr1, Txt(<<"1", "0", "0">>), Txt(<<"1", "0">>), Num(5)),
               PaySui(List(<<Coin2>>), SuiAddr1, Txt(<<"7">>), Txt(<<"1", "0">>), Undef)}}
    \cup {[privateKey |-> SuiKey1, data |-> RawSui(B64(Block2))]}
ConcData == TxData(Num(2), Recipient, TokenAddr, Undef, Num(16), Undef, CHOOSE f \in FeeProfiles : f.nonce = Num(7))
ConcPhase1Params == {[privateKey |-> Undef, data |-> d] : d \in {ConcData, OtherData}}
ConcPhase2Params ==
    {[raw |-> h.u.val.raw, sigs |-> SignRS(h.u.val.hash, kb), publicKey |-> PubKeyOf(kb)] :
        h \in {x \in Handed : x.d \in {ConcData, OtherData}}, kb \in {KeyBytesOf(GoodKey)}}

\* ---------------------------------------------------------------- state
vars == <<calls>>

Slots == 1..NSlots
Idle == [pc |-> "idle"]

\* The caller issues one call at a time.
Alone(i) == \A j \in Slots : calls[j].pc = "idle"
Free(i) == calls[i].pc = "idle"

Init == calls = [i \in Slots |-> Idle]

\* A call that ran to its end in one step.
Finished(op, param, out) ==
    [pc |-> "done", op |-> op, param |-> param, res |-> out.res, trace |-> out.trace, built |-> out.built]

\* A call suspended at its await of the inner call, whose outcome is inner.
Awaiting(op, param, inner) ==
    [pc |-> "await", op |-> op, param |-> param, res |-> Pending, trace |-> inner.trace, built |-> inner.built,
     inner |-> inner]

Start(i, c) == calls' = [calls EXCEPT ![i] = c]

\* EthWallet.getNewAddress (lines 73-86)
getNewAddress(i) ==
    \E k \in KeyTexts : Start(i, Finished("EthWallet.getNewAddress", [privateKey |-> k], EthGetNewAddress([privateKey |-> k])))

\* EthWallet.validPrivateKey (lines 88-95)
validPrivateKey(i) ==
    \E k \in KeyTexts : Start(i, Finished("EthWallet.validPrivateKey", [privateKey |-> k], EthValidPrivateKey([privateKey |-> k])))

\* EthWallet.signTransaction (lines 133-236)
signTransaction(i, params) ==
    \E param \in params : Start(i, Finished("EthWallet.signTransaction", param, EthSignTransaction(param)))

\* EthWallet.signAuthorizationListItem (lines 242-273)
signAuthorizationListItem(i) ==
    \E param \in AuthParams :
        Start(i, Finished("EthWallet.signAuthorizationListItem", param, EthSignAuthorizationListItem(param)))

\* EthWallet.signAuthorizationListItemForRPC up to its await (lines 276-277)
signAuthorizationListItemForRPC(i) ==
    \E param \in AuthParams :
        Start(i, Awaiting("EthWallet.signAuthorizationListItemForRPC", param, EthSignAuthorizationListItem(param)))

\* ... and after it (line 278): a rejection of the inner call passes through.
signAuthorizationListItemForRPCResume(i) ==
    /\ calls[i].pc = "await"
    /\ calls[i].op = "EthWallet.signAuthorizationListItemForRPC"
    /\ calls' = [calls EXCEPT ![i].pc = "done",
                              ![i].res = IF calls[i].inner.res.kind = "resolve"
                                         THEN Resolve(toRpcAuth(calls[i].inner.res.val))
                                         ELSE calls[i].inner.res]

\* EthWallet.toRpcAuth (lines 283-291)
toRpcAuthCall(i) ==
    \E auth \in RpcAuths : Start(i, Finished("EthWallet.toRpcAuth", auth, Out(Resolve(toRpcAuth(auth)), <<>>, NoTx)))

\* EthWallet.toRpcHex (lines 293-297)
toRpcHexCall(i) ==
    \E hex \in HexTexts : Start(i, Finished("EthWallet.toRpcHex", Txt(hex), Out(Resolve(Txt(toRpcHex(hex))), <<>>, NoTx)))

\* EthWallet.signMessage (lines 299-309)
signMessage(i) ==
    \E param \in MessageParams : Start(i, Finished("EthWallet.signMessage", param, EthSignMessage(param)))

\* EthWallet.getMPCRawTransaction up to its await (lines 354-355)
getMPCRawTransaction(i, params) ==
    \E param \in params : Start(i, Awaiting("EthWallet.getMPCRawTransaction", param, EthSignTransaction(param)))

\* ... and after it (lines 356-362)
getMPCRawTransactionResume(i) ==
    /\ calls[i].pc = "await"
    /\ calls[i].op = "EthWallet.getMPCRawTransaction"
    /\ calls' = [calls EXCEPT ![i].pc = "done", ![i].res = MpcRawContinuation(calls[i].inner)]

\* EthWallet.getMPCTransaction (lines 365-372)
getMPCTransaction(i, params) ==
    \E param \in params : Start(i, Finished("EthWallet.getMPCTransaction", param, EthGetMPCTransaction(param)))

\* EthWallet.getHardWareRawTransaction up to its await (lines 392-393)
getHardWareRawTransaction(i) ==
    \E param \in Phase1Params : Start(i, Awaiting("EthWallet.getHardWareRawTransaction", param, EthSignTransaction(param)))

\* ... and after it (lines 394-397)
getHardWareRawTransactionResume(i) ==
    /\ calls[i].pc = "await"
    /\ calls[i].op = "EthWallet.getHardWareRawTransaction"
    /\ calls' = [calls EXCEPT ![i].pc = "done", ![i].res = HardwareRawContinuation(calls[i].inner)]

\* EthWallet.getHardWareSignedTransaction (lines 401-407)
getHardWareSignedTransaction(i) ==
    \E param \in HardwarePhase2Params :
        Start(i, Finished("EthWallet.getHardWareSignedTransaction", param, EthGetHardWareSignedTransaction(param)))

\* EthWallet.calcTxHash (lines 409-413)
calcTxHash(i) ==
    \E param \in CalcTxHashParams : Start(i, Finished("EthWallet.calcTxHash", param, EthCalcTxHash(param)))

\* SuiWallet.validPrivateKey (lines 518-530)
suiValidPrivateKey(i) ==
    \E k \in SuiKeys : Start(i, Finished("SuiWallet.validPrivateKey", [privateKey |-> k], SuiValidPrivateKey([privateKey |-> k])))

\* SuiWallet.validAddress (lines 594-608)
suiValidAddress(i) ==
    \E a \in SuiAddresses : Start(i, Finished("SuiWallet.validAddress", [address |-> a], SuiValidAddress([address |-> a])))

\* SuiWallet.getNewAddress (lines 505-516)
suiGetNewAddress(i) ==
    \E k \in SuiKeys : Start(i, Finished("SuiWallet.getNewAddress", [privateKey |-> k], SuiGetNewAddress([privateKey |-> k])))

\* SuiWallet.calcTxHash (lines 610-617)
suiCalcTxHash(i) ==
    \E d \in {B64(Block1), B64(Block2), Malformed} :
        Start(i, Finished("SuiWallet.calcTxHash", [data |-> d], SuiCalcTxHash([data |-> d])))

\* SuiWallet.signTransaction up to its first promise (lines 552-576, 587-591)
suiSignTransaction(i, params) == \E param \in params : Start(i, SuiSignStart(param))

SuiAt(i, pc) == calls[i].pc = pc /\ calls[i].op = "SuiWallet.signTransaction"

\* signer.getAddress() resolves (lines 576-580)
suiAddressResolved(i) == SuiAt(i, "getAddress") /\ calls' = [calls EXCEPT ![i] = SuiAfterAddress(calls[i])]

\* tx.build() settles (lines 580-585)
suiBuildSettled(i) == SuiAt(i, "build") /\ calls' = [calls EXCEPT ![i] = SuiAfterBuild(calls[i])]

\* signer.signTransactionBlock() settles (lines 560-563, 581-584)
suiSignSettled(i) == SuiAt(i, "sign") /\ calls' = [calls EXCEPT ![i] = SuiAfterSign(calls[i])]

\* The caller takes the settled promise: the slot is free again.
Return(i) ==
    /\ calls[i].pc = "done"
    /\ calls' = [calls EXCEPT ![i] = Idle]

\* One caller, one call at a time, over every operation.
Next ==
    \E i \in Slots :
        \/ Alone(i) /\ getNewAddress(i)
        \/ Alone(i) /\ validPrivateKey(i)
        \/ Alone(i) /\ signTransaction(i, SignTxParams)
        \/ Alone(i) /\ signAuthorizationListItem(i)
        \/ Alone(i) /\ signAuthorizationListItemForRPC(i)
        \/ signAuthorizationListItemForRPCResume(i)
        \/ Alone(i) /\ toRpcAuthCall(i)
        \/ Alone(i) /\ toRpcHexCall(i)
        \/ Alone(i) /\ signMessage(i)
        \/ Alone(i) /\ getMPCRawTransaction(i, Phase1Params)
        \/ getMPCRawTransactionResume(i)
        \/ Alone(i) /\ getMPCTransaction(i, MpcPhase2Params)
        \/ Alone(i) /\ getHardWareRawTransaction(i)
        \/ getHardWareRawTransactionResume(i)
        \/ Alone(i) /\ getHardWareSignedTransaction(i)
        \/ Alone(i) /\ calcTxHash(i)
        \/ Alone(i) /\ suiValidPrivateKey(i)
        \/ Alone(i) /\ suiValidAddress(i)
        \/ Alone(i) /\ suiGetNewAddress(i)
        \/ Alone(i) /\ suiCalcTxHash(i)
        \/ Alone(i) /\ suiSignTransaction(i, SuiSignParams)
        \/ suiAddressResolved(i)
        \/ suiBuildSettled(i)
        \/ suiSignSettled(i)
        \/ Return(i)

Spec == Init /\ [][Next]_vars

\* Overlapping callers: a call may start while others are in flight.
NextConc ==
    \E i \in Slots :
        \/ Free(i) /\ suiSignTransaction(i, ConcSuiParams)
        \/ suiAddressResolved(i)
        \/ suiBuildSettled(i)
        \/ suiSignSettled(i)
        \/ Free(i) /\ getMPCRawTransaction(i, ConcPhase1Params)
        \/ getMPCRawTransactionResume(i)
        \/ Free(i) /\ getMPCTransaction(i, ConcPhase2Params)
        \/ Return(i)

SpecConc == Init /\ [][NextConc]_vars

\* ================================================================ claims
Done(i, op) == calls[i].pc = "done" /\ calls[i].op = op

LegacyFields == {"nonce", "gasPrice", "gasLimit", "to", "value", "data", "chainId", "type"}
FeeMarketFields == {"nonce", "gasLimit", "to", "value", "data", "chainId", "type", "maxPriorityFeePerGas", "maxFeePerGas"}
DelegatedAuthFields == FeeMarketFields \cup {"authorizationList"}

\* The type a request is dispatched on: its own, 0 when it has none.
NormalType(data) == IF Truthy(data.type) THEN data.type ELSE Num(0)
IsNumIn(type, S) == type.t = "number" /\ type.n \in S

\* The fields a request of this type must be built with.
FieldsFor(type) ==
    CASE IsNumIn(type, {0, 1}) -> LegacyFields
      [] IsNumIn(type, {2}) -> FeeMarketFields
      [] IsNumIn(type, {4}) -> DelegatedAuthFields
      [] OTHER -> {}

\* The dispatch of signTransaction on the calls that got past the key check
\* and the token encoding; err is the error an unsupported type must end in.
DispatchWith(err) ==
    \A i \in Slots :
        Done(i, "EthWallet.signTransaction") /\ calls[i].param.data.t = "object" =>
            LET c == calls[i]
                type == NormalType(c.param.data)
            IN /\ "build" \in {c.trace[k] : k \in 1..Len(c.trace)} <=> c.built # NoTx
               /\ c.built # NoTx => DOMAIN c.built = FieldsFor(type)
               /\ (/\ FieldsFor(type) # {}
                   /\ "normalize" \in {c.trace[k] : k \in 1..Len(c.trace)}
                   /\ (Truthy(c.param.data.contractAddress) => c.param.data.to.t = "string"))
                   => c.built # NoTx /\ c.built.type = type
               /\ FieldsFor(type) = {} /\ "normalize" \in {c.trace[k] : k \in 1..Len(c.trace)}
                   => /\ c.built = NoTx
                      /\ "sign" \notin {c.trace[k] : k \in 1..Len(c.trace)}
                      /\ c.res = Reject(err)

\* C1 as stated: types 0/1 build a Legacy transaction, 2 a FeeMarket one, 4 a
\* DelegatedAuth one, and every other type builds and signs nothing and fails
\* with an error of its own, UnsupportedTransactionType.
C1_AsStated == DispatchWith(Typed("UnsupportedTransactionType"))

\* C1 amended: the same dispatch, and every other type builds and signs
\* nothing and is rejected with SignTxError, the error of every signing failure.
C1_Dispatch == DispatchWith(SignTxError)

\* A request of type 3 under a good key was rejected with SignTxError and
\* nothing built.
C1_Witness ==
    \E i \in Slots :
        /\ Done(i, "EthWallet.signTransaction")
        /\ calls[i].param.privateKey = GoodKey
        /\ calls[i].param.data.t = "object"
        /\ calls[i].param.data.type = Num(3)
        /\ calls[i].res = Reject(SignTxError)
        /\ calls[i].built = NoTx

\* The amount of a request: the integer its value denotes, 0 when unset.
AmountOf(data) == IF Truthy(data.value) THEN BigNumber(data.value) ELSE 0
\* Hex digits left-padded with "0" to 64 digits (32 bytes).
Pad64(digits) == Rep(<<"0">>, 64 - Len(digits)) \o digits
Quantity(n) == Txt(Hx(HexDigits(n)))

\* C2: with a contractAddress the call data is 0xa9059cbb, the padded
\* recipient and the padded amount, to is the contract, the caller's data is
\* dropped, and the value is 0 for types 2 and 4 and, for types 0/1, 0 when
\* useValue is false and the amount otherwise; without a contractAddress to,
\* value and data pass through.
C2_TokenTransfer ==
    \A i \in Slots :
        Done(i, "EthWallet.signTransaction") /\ calls[i].built # NoTx =>
            LET c == calls[i]
                d == c.param.data
                legacy == IsNumIn(c.built.type, {0, 1})
            IN IF Truthy(d.contractAddress)
               THEN /\ c.built.data = Txt(<<"0", "x", "a", "9", "0", "5", "9", "c", "b", "b">>
                                          \o Pad64(Drop(d.to.s, 2)) \o Pad64(HexDigits(AmountOf(d))))
                    /\ c.built.to = d.contractAddress
                    /\ ~legacy => c.built.value = Quantity(0)
                    /\ legacy /\ ~Truthy(d.useValue) => c.built.value = Quantity(0)
                    /\ legacy /\ Truthy(d.useValue) => c.built.value = Quantity(AmountOf(d))
               ELSE /\ c.built.to = d.to
                    /\ c.built.data = d.data
                    /\ c.built.value = Quantity(AmountOf(d))

\* A type 0 token transfer with useValue set kept its amount as value while a
\* caller-supplied data was replaced by the transfer call.
C2_Witness ==
    \E i \in Slots :
        /\ Done(i, "EthWallet.signTransaction")
        /\ calls[i].built # NoTx
        /\ calls[i].param.data.contractAddress = TokenAddr
        /\ calls[i].param.data.type = Num(0)
        /\ calls[i].param.data.useValue = Bool(TRUE)
        /\ calls[i].param.data.data = Txt(Hx(<<"a", "b">>))
        /\ calls[i].param.data.value = Num(16)
        /\ calls[i].built.value = Quantity(16)
        /\ calls[i].built.to = TokenAddr

\* The steps a call took, as a set.
Steps(c) == {c.trace[k] : k \in 1..Len(c.trace)}

\* C3 as stated: every call that settled resolved with a value or was rejected
\* with one typed error constant; no exception of a helper reaches the caller
\* as it was thrown.
C3_TypedOutcome ==
    \A i \in Slots :
        calls[i].pc = "done" =>
            \/ calls[i].res.kind = "resolve"
            \/ calls[i].res.kind = "reject" /\ calls[i].res.err.typed

\* The private key of a call decodes to a number of bytes other than 32.
WrongKeyLength(c) == c.param.privateKey.t = "string" /\ Len(fromHex(c.param.privateKey).val) # KeyBytes

SigningOps == {"EthWallet.signTransaction", "EthWallet.signAuthorizationListItem", "EthWallet.signMessage"}

\* A signing call failed at its key check: nothing was normalized, encoded,
\* built, hashed or signed, and signTransaction ended in SignTxError with no
\* transaction.
FailedFast(c) ==
    /\ c.res.kind = "reject"
    /\ Steps(c) \cap {"normalize", "encodeCall", "build", "hash", "sign"} = {}
    /\ c.built = NoTx
    /\ c.op = "EthWallet.signTransaction" => c.res = Reject(SignTxError)

\* C4 as stated: in signTransaction, signAuthorizationListItem and
\* signMessage a private key whose decoded length is not 32 bytes makes the
\* call fail before any normalization, hashing or signing, and signTransaction
\* fails with SignTxError and no partial result.
C4_FailFast ==
    \A i \in Slots :
        calls[i].pc = "done" /\ calls[i].op \in SigningOps /\ WrongKeyLength(calls[i]) => FailedFast(calls[i])

\* The same for the keys that are not the empty text.
C4_NonEmptyKeyFailFast ==
    \A i \in Slots :
        /\ calls[i].pc = "done"
        /\ calls[i].op \in SigningOps
        /\ WrongKeyLength(calls[i])
        /\ calls[i].param.privateKey # EmptyKey
        => FailedFast(calls[i])

\* signTransaction under the empty key went on to build a transaction.
C4_EmptyKeyBuilt ==
    \E i \in Slots :
        /\ Done(i, "EthWallet.signTransaction")
        /\ calls[i].param.privateKey = EmptyKey
        /\ calls[i].res.kind = "resolve"
        /\ calls[i].built # NoTx

\* What signTransaction returns for the request d under the key k.
SignedBy(k, d) == EthSignTransaction([privateKey |-> k, data |-> d]).res

SameInteger(a, b) ==
    LET n == IF Len(a) > Len(b) THEN Len(a) ELSE Len(b)
    IN Rep(<<"0">>, n - Len(a)) \o a = Rep(<<"0">>, n - Len(b)) \o b

\* out is the RPC form of the hex text in: the same integer, at least one
\* digit, and no leading zero digit unless it is the single digit 0.
RpcFormOf(out, in) ==
    /\ HasPrefix0x(out)
    /\ SameInteger(Drop(out, 2), Drop(in, 2))
    /\ Len(out) >= 3
    /\ out[3] = "0" => Len(out) = 3

RpcFields == {"chainId", "nonce", "yParity", "r", "s"}

\* after is the RPC form of the authorization item before.
RpcItemOf(after, before) ==
    /\ DOMAIN after = DOMAIN before
    /\ \A f \in RpcFields : RpcFormOf(after[f].s, before[f].s)
    /\ after.address = before.address

\* C6: toRpcHex, toRpcAuth and signAuthorizationListItemForRPC change only the
\* text of chainId, nonce, yParity, r and s: each denotes the same integer and
\* has no leading zero digit (0x becomes 0x0), the address is returned as it
\* was, and a second application changes nothing.
C6_RpcForm ==
    \A i \in Slots :
        LET c == calls[i] IN
        /\ Done(i, "EthWallet.toRpcHex") =>
              /\ c.res.kind = "resolve"
              /\ RpcFormOf(c.res.val.s, c.param.s)
              /\ toRpcHex(c.res.val.s) = c.res.val.s
        /\ Done(i, "EthWallet.toRpcAuth") =>
              /\ c.res.kind = "resolve"
              /\ RpcItemOf(c.res.val, c.param)
              /\ toRpcAuth(c.res.val) = c.res.val
        /\ Done(i, "EthWallet.signAuthorizationListItemForRPC") =>
              IF c.inner.res.kind = "resolve"
              THEN /\ c.res.kind = "resolve"
                   /\ RpcItemOf(c.res.val, c.inner.res.val)
                   /\ c.res.val.address = c.param.data.address
                   /\ toRpcAuth(c.res.val) = c.res.val
              ELSE c.res = c.inner.res

\* signAuthorizationListItemForRPC returned an item for the address with a
\* leading zero byte, chain id 0x0001 and nonce 0x00: chain id 0x1, nonce 0x0.
C6_Witness ==
    \E i \in Slots :
        /\ Done(i, "EthWallet.signAuthorizationListItemForRPC")
        /\ calls[i].res.kind = "resolve"
        /\ calls[i].param.data = [chainId |-> Txt(Hx(<<"0", "0", "0", "1">>)), address |-> Recipient,
                                  nonce |-> Txt(Hx(<<"0", "0">>))]
        /\ calls[i].res.val.chainId = Txt(Hx(<<"1">>))
        /\ calls[i].res.val.nonce = Txt(Hx(<<"0">>))
        /\ calls[i].res.val.address = Recipient

\* The RLP encoding of a byte string shorter than 56 bytes.
ShortItem(b) == IF Len(b) = 1 /\ b[1] < 128 THEN b ELSE <<128 + Len(b)>> \o b
\* The bytes of a quantity given as 0x hex text: none for 0.
QuantityBytes(v) == MinBytes(HexVal(Drop(v.s, 2)))
\* The bytes of 0x hex text of an even number of digits, all of them.
AllBytes(v) == DecodePairs(Drop(v.s, 2))
\* A hex text of whole bytes whose first byte is not zero.
NoLeadingZeroByte(v) ==
    /\ HasPrefix0x(v.s)
    /\ Len(v.s) % 2 = 0
    /\ Len(v.s) >= 4 => ~(v.s[3] = "0" /\ v.s[4] = "0")

\* C7: signAuthorizationListItem signs keccak256(0x05 || RLP([chainId,
\* address, nonce])) with chainId and nonce without their leading zero bytes
\* (0 and an absent nonce are the empty byte string) and the address with all
\* its bytes; it returns those chainId and nonce, the address as supplied, r
\* and s without leading zero bytes, and yParity 0x for recovery id 0 and 0x1
\* otherwise.
C7_AuthItem ==
    \A i \in Slots :
        Done(i, "EthWallet.signAuthorizationListItem") /\ calls[i].built # NoTx =>
            LET c == calls[i]
                d == c.param.data
                chainId == QuantityBytes(d.chainId)
                nonce == IF d.nonce = Undef THEN <<>> ELSE QuantityBytes(d.nonce)
                address == AllBytes(d.address)
                items == ShortItem(chainId) \o ShortItem(address) \o ShortItem(nonce)
                signed == ecdsaSign(c.built.msg, KeyBytesOf(c.param.privateKey))
            IN /\ Len(address) = 20
               /\ c.built.msg = keccak256(<<5>> \o <<192 + Len(items)>> \o items)
               /\ c.res.kind = "resolve" =>
                     /\ c.res.val.chainId = Txt(Hx(BytesToChars(chainId)))
                     /\ c.res.val.nonce = Txt(Hx(BytesToChars(nonce)))
                     /\ c.res.val.address = d.address
                     /\ NoLeadingZeroByte(c.res.val.r) /\ NoLeadingZeroByte(c.res.val.s)
                     /\ PadLeft(AllBytes(c.res.val.r), KeyBytes) = PadLeft(signed.val.r, KeyBytes)
                     /\ PadLeft(AllBytes(c.res.val.s), KeyBytes) = PadLeft(signed.val.s, KeyBytes)
                     /\ c.res.val.yParity = IF signed.val.v - 27 = 0 THEN Txt(Hx(<<>>)) ELSE Txt(Hx(<<"1">>))

\* An item for the address with a leading zero byte, chain id 0x00 and no
\* nonce was signed: chain id and nonce came back as 0x.
C7_Witness ==
    \E i \in Slots :
        /\ Done(i, "EthWallet.signAuthorizationListItem")
        /\ calls[i].res.kind = "resolve"
        /\ calls[i].param.data = [chainId |-> Txt(Hx(<<"0", "0">>)), address |-> Recipient, nonce |-> Undef]
        /\ calls[i].res.val.chainId = Txt(Hx(<<>>))
        /\ calls[i].res.val.nonce = Txt(Hx(<<>>))
        /\ calls[i].built.msg = keccak256(<<5, 192 + 23, 128, 128 + 20>> \o AllBytes(Recipient) \o <<128>>)

\* The unset numeric fields of a built transaction hold their defaults:
\* value 0, chainId 1, gas values 0.
DefaultsTaken(c) ==
    LET d == c.param.data IN
    /\ d.value = Undef /\ ~Truthy(d.contractAddress) => c.built.value = Quantity(0)
    /\ d.chainId = Undef => c.built.chainId = Quantity(1)
    /\ d.gasLimit = Undef => c.built.gasLimit = Quantity(0)
    /\ \A f \in {"gasPrice", "maxPriorityFeePerGas", "maxFeePerGas"} \cap DOMAIN c.built :
          d[f] = Undef => c.built[f] = Quantity(0)

\* C8 as stated: a signTransaction request without a type is rejected with a
\* typed error and builds nothing, and the other unset numeric fields take
\* their defaults.
C8_TypeExplicit ==
    \A i \in Slots :
        Done(i, "EthWallet.signTransaction") /\ calls[i].param.data.t = "object" =>
            /\ calls[i].param.data.type = Undef =>
                  /\ calls[i].res.kind = "reject" /\ calls[i].res.err.typed
                  /\ calls[i].built = NoTx
            /\ calls[i].built # NoTx => DefaultsTaken(calls[i])

\* C8 amended: a request without a type is taken for type 0 and built as a
\* Legacy transaction, and the other unset numeric fields take their defaults.
C8_TypeDefaulted ==
    \A i \in Slots :
        Done(i, "EthWallet.signTransaction") /\ calls[i].param.data.t = "object" =>
            LET c == calls[i]
                d == c.param.data
            IN /\ (/\ d.type = Undef
                   /\ "normalize" \in Steps(c)
                   /\ Truthy(d.contractAddress) => d.to.t = "string")
                  => /\ c.built # NoTx
                     /\ c.built.type = Num(0)
                     /\ DOMAIN c.built = LegacyFields
               /\ c.built # NoTx => DefaultsTaken(c)

\* A request without type, chainId and gas values was signed under a good key
\* as a Legacy transaction of chain 1.
C8_Witness ==
    \E i \in Slots :
        /\ Done(i, "EthWallet.signTransaction")
        /\ calls[i].param.privateKey = GoodKey
        /\ calls[i].param.data.t = "object"
        /\ calls[i].param.data.type = Undef
        /\ calls[i].param.data.chainId = Undef
        /\ calls[i].param.data.gasPrice = Undef
        /\ calls[i].res.kind = "resolve"
        /\ calls[i].built.type = Num(0)
        /\ calls[i].built.chainId = Quantity(1)
        /\ calls[i].built.gasPrice = Quantity(0)

\* The number of hex digits a text starts with.
RECURSIVE HexRun(_)
HexRun(s) == IF s # <<>> /\ IsHexChar(s[1]) THEN 1 + HexRun(Tail(s)) ELSE 0

\* A text decodes as hex to 32 bytes: after an optional 0x it starts with 32
\* pairs of hex digits and no 33rd.
DecodesTo32Bytes(v) ==
    /\ v.t = "string"
    /\ HexRun(IF HasPrefix0x(v.s) THEN Drop(v.s, 2) ELSE v.s) \div 2 = 32

\* A Sui private key that decodes: the prefix, the flag 0, a seed of 32 bytes
\* and the check digit, as encodeSuiPrivateKey writes them.
DecodableSuiKey(v) ==
    /\ v.t = "string"
    /\ Len(v.s) = Len(SUI_PRIVATE_KEY_PREFIX) + 1 + 2 * (KeyBytes + 1) + 1
    /\ v = encodeSuiPrivateKey(0, DecodePairs(SubSeq(v.s, Len(SUI_PRIVATE_KEY_PREFIX) + 4, Len(v.s) - 1)))

\* C9: SuiWallet.validPrivateKey, SuiWallet.validAddress and
\* EthWallet.validPrivateKey always resolve, with their input unchanged and a
\* boolean isValid; validAddress says true exactly for a text that decodes as
\* hex to 32 bytes, SuiWallet.validPrivateKey exactly for a key that decodes.
C9_Verdicts ==
    \A i \in Slots :
        LET c == calls[i] IN
        /\ Done(i, "SuiWallet.validAddress") =>
              /\ c.res.kind = "resolve"
              /\ c.res.val.address = c.param.address
              /\ c.res.val.isValid = DecodesTo32Bytes(c.param.address)
        /\ Done(i, "SuiWallet.validPrivateKey") =>
              /\ c.res.kind = "resolve"
              /\ c.res.val.privateKey = c.param.privateKey
              /\ c.res.val.isValid = DecodableSuiKey(c.param.privateKey)
        /\ Done(i, "EthWallet.validPrivateKey") =>
              /\ c.res.kind = "resolve"
              /\ c.res.val.privateKey = c.param.privateKey
              /\ c.res.val.isValid \in BOOLEAN

\* validAddress resolved with isValid false for an address of 33 bytes.
C9_Witness ==
    \E i \in Slots :
        /\ Done(i, "SuiWallet.validAddress")
        /\ calls[i].param.address = Txt(SuiAddr1.s \o <<"e", "e">>)
        /\ calls[i].res = Resolve([t |-> "validAddress", isValid |-> FALSE, address |-> Txt(SuiAddr1.s \o <<"e", "e">>)])

\* The seed of the Sui key of a call: the 32 bytes after the prefix and flag.
OwnSeed(param) == DecodePairs(SubSeq(param.privateKey.s, Len(SUI_PRIVATE_KEY_PREFIX) + 4, Len(param.privateKey.s) - 1))

\* The block a paySUI call builds when it runs alone on param.
OwnBlock(param) ==
    LET ps == param.data.data IN
    [t |-> "block",
     gasPrice |-> Num(DecVal(ps.gasPrice.s)),
     gasBudget |-> Num(DecVal(ps.gasBudget.s)),
     expiration |-> IF ps.epoch = Undef THEN Undef ELSE [t |-> "expiration", Epoch |-> ps.epoch],
     gasPayment |-> ps.inputCoins,
     sender |-> [t |-> "suiAddress", of |-> OwnSeed(param)],
     commands |-> <<[t |-> "SplitCoins", coin |-> "gas", amount |-> DecVal(ps.amount.s)],
                    [t |-> "TransferObjects", recipient |-> ps.recipient]>>]

\* What SuiWallet.signTransaction returns when it runs alone on param.
OwnSigned(param) ==
    LET block == IF param.data.type = Txt(<<"r", "a", "w">>) THEN param.data.data.of ELSE OwnBlock(param)
    IN Resolve([t |-> "signedBlock", transactionBlockBytes |-> block,
                signature |-> [t |-> "ed25519sig", over |-> block, by |-> OwnSeed(param)]])

\* C10: with calls overlapping in any order, every call holds only what it
\* made of its own arguments (its signer, its block, the outcome of its inner
\* call) and ends in the result it has when it runs alone.
C10_Isolation ==
    \A i \in Slots :
        LET c == calls[i] IN
        /\ c.pc # "idle" /\ c.op = "SuiWallet.signTransaction" =>
              /\ c.signer = [t |-> "signer", seed |-> OwnSeed(c.param)]
              /\ c.pc = "done" => c.res = OwnSigned(c.param)
              /\ c.param.data.type = Txt(<<"p", "a", "y", "S", "U", "I">>) =>
                    /\ c.tx.gasPayment = c.param.data.data.inputCoins
                    /\ c.tx.sender \in {Undef, OwnBlock(c.param).sender}
                    /\ c.pc \in {"build", "sign", "done"} => c.tx = OwnBlock(c.param)
        /\ c.pc # "idle" /\ c.op = "EthWallet.getMPCRawTransaction" =>
              /\ c.inner.built.to = (IF Truthy(c.param.data.contractAddress) THEN c.param.data.contractAddress ELSE c.param.data.to)
              /\ c.inner.built.type = c.param.data.type
              /\ c.pc = "done" =>
                    \E h \in Handed :
                        /\ h.d = c.param.data
                        /\ c.res = Resolve([t |-> "mpcRaw", raw |-> h.u.val.raw, hash |-> h.u.val.hash])
        /\ Done(i, "EthWallet.getMPCTransaction") =>
              \E h \in Handed : h.u.val.raw = c.param.raw /\ c.res = SignedBy(GoodKey, h.d)

\* A paySUI call under one key ended while one under the other key was
\* between its address and its build.
C10_Witness ==
    \E i, j \in Slots :
        /\ Done(i, "SuiWallet.signTransaction")
        /\ calls[i].param.data.type = Txt(<<"p", "a", "y", "S", "U", "I">>)
        /\ calls[i].res.kind = "resolve"
        /\ calls[j].pc = "build"
        /\ calls[j].param.privateKey # calls[i].param.privateKey

IsPaySui(data) == data.t = "object" /\ data.type = Txt(<<"p", "a", "y", "S", "U", "I">>)
IsRawSui(data) == data.t = "object" /\ data.type = Txt(<<"r", "a", "w">>)

\* A SuiWallet.signTransaction call was refused with err before it set up a
\* block: it holds no block and no signer's promise, and nothing was signed.
RefusedEarly(c, err) ==
    /\ c.res = Reject(err)
    /\ "tx" \notin DOMAIN c

\* A paySUI request without input coins and a request of another type than
\* raw and paySUI are rejected with errNoCoins and with a typed error, before
\* any gas setting, split, transfer, build or signature.
SuiRefusals(errNoCoins) ==
    \A i \in Slots :
        Done(i, "SuiWallet.signTransaction") /\ calls[i].param.data.t = "object" =>
            LET c == calls[i]
                d == c.param.data
            IN /\ (/\ IsPaySui(d)
                   /\ d.data.inputCoins = Undef \/ d.data.inputCoins = List(<<>>))
                  => /\ tryDecodeSuiPrivateKey(c.param.privateKey).ok => RefusedEarly(c, errNoCoins)
                     /\ c.res.kind = "reject" /\ "tx" \notin DOMAIN c
               /\ ~IsPaySui(d) /\ ~IsRawSui(d)
                  => c.res.kind = "reject" /\ c.res.err.typed /\ "tx" \notin DOMAIN c

\* C11 as stated: paySUI with an absent or empty inputCoins is rejected with
\* the typed error MissingRequiredField before any gas setting, split,
\* transfer, build or signature, and a request of a type other than raw and
\* paySUI is rejected with a typed error and signs nothing.
C11_AsStated == SuiRefusals(Typed("MissingRequiredField"))

\* C11 amended: the same, and the error of the missing input coins is
\* SignTxError.
C11_Refusals == SuiRefusals(SignTxError)

\* A paySUI request with an empty list of input coins under a good key was
\* rejected with SignTxError and holds no block.
C11_Witness ==
    \E i \in Slots :
        /\ Done(i, "SuiWallet.signTransaction")
        /\ calls[i].param.privateKey = SuiKey1
        /\ IsPaySui(calls[i].param.data)
        /\ calls[i].param.data.data.inputCoins = List(<<>>)
        /\ calls[i].res = Reject(SignTxError)
        /\ "tx" \notin DOMAIN calls[i]

\* The paySUI calls whose epoch is in epochs carry, once their block goes to
\* build and signature, the block the request describes: an expiration
\* [Epoch e] exactly when an epoch e was supplied, gas price, gas budget and
\* gas payment set, the sender, the split of the amount from the gas coin and
\* the transfer to the recipient in place; what is signed is that block.
PaySuiBlockAsRequested(epochs) ==
    \A i \in Slots :
        LET c == calls[i] IN
        (/\ c.pc # "idle"
         /\ c.op = "SuiWallet.signTransaction"
         /\ IsPaySui(c.param.data)
         /\ c.param.data.data.epoch \in epochs
         /\ "tx" \in DOMAIN c) =>
            /\ c.pc = "getAddress" =>
                   /\ c.tx.gasPrice = OwnBlock(c.param).gasPrice
                   /\ c.tx.gasBudget = OwnBlock(c.param).gasBudget
                   /\ c.tx.gasPayment = OwnBlock(c.param).gasPayment
                   /\ c.tx.expiration = OwnBlock(c.param).expiration
            /\ c.pc \in {"build", "sign"} => c.tx = OwnBlock(c.param)
            /\ c.pc = "done" /\ c.res.kind = "resolve" =>
                   /\ c.res.val.transactionBlockBytes = OwnBlock(c.param)
                   /\ c.res.val.signature.over = OwnBlock(c.param)

\* C12: in the paySUI path the signed block carries the expiration Epoch e
\* exactly when the caller supplied an epoch e, epoch 0 included, and none
\* when no epoch was supplied; gas price, gas budget and gas payment are set,
\* and sender, split and transfer are in place before build and signature.
C12_BlockAsRequested == PaySuiBlockAsRequested({Undef, Num(0), Num(5)})

\* The same for the requests without an epoch or with a non-zero epoch.
C12_ExceptEpochZero == PaySuiBlockAsRequested({Undef, Num(5)})

\* A paySUI request with epoch 0 was signed, and the signed block has no
\* expiration.
C12_EpochZeroSigned ==
    \E i \in Slots :
        /\ Done(i, "SuiWallet.signTransaction")
        /\ IsPaySui(calls[i].param.data)
        /\ calls[i].param.data.data.epoch = Num(0)
        /\ calls[i].res.kind = "resolve"
        /\ calls[i].res.val.transactionBlockBytes.expiration = Undef
====
